---- MODULE Spec2Model ----
(***************************************************************************)
(* Minotaur settings: the priority table SETTING_PRIORITIES, the per-key   *)
(* history SettingAttributes (a heapq of (rank, priority, value) tuples)   *)
(* and the frozen/unfrozen container BaseSettings.                         *)
(* Source: src/minotaur/settings/__init__.py                               *)
(***************************************************************************)
EXTENDS Integers, Sequences, FiniteSets, TLC

\* ---------------------------------------------------------------- bounds
MaxRecords == 3      \* records held by the whole store
MaxDepth == 1        \* nested unfreeze scopes of Spec
MaxNest == 3         \* nested unfreeze scopes of SpecScope
MaxWrites == 3       \* writes of the client that writes one multiset twice

\* ---------------------------------------------------------------- inputs
Keys == {"A", "B"}
Values == {1, 2}
\* priority arguments passed by callers: "" is the falsy priority,
\* "customize" is not in the table until it is registered
PriorityArgs == {"", "default", "project", "customize"}
\* SETTING_PRIORITIES[name] = rank assignments made by callers
Registrations == {<<"customize", 25>>}

\* None, as a value and as a priority name
None == -1
NonePriority == "None"
\* the falsy defaults passed to get: the number 0 and the empty string ''
Zero == 0
EmptyStr == -2
FalsyDefaults == {Zero, EmptyStr}
\* not x, for x a default: None, 0 and '' are falsy
Falsy(x) == x \in {None, Zero, EmptyStr}

VARIABLES
    SETTING_PRIORITIES,  \* the module-level dict: priority name -> rank
    _frozen,             \* BaseSettings._frozen
    _data,               \* BaseSettings._data: key -> SettingAttributes._heap
    scopes,              \* the `status` local of every active unfreeze() frame
    exc,                 \* the exception now propagating, "none" if none
    pc,                  \* "new" before __init__ ran, "ready" after, "failed"
    last,                \* the name of the last call
    todo                 \* the writes a client has still to make (SpecPerm)

vars == <<SETTING_PRIORITIES, _frozen, _data, scopes, exc, pc, last, todo>>

\* ------------------------------------------------------- priority table
\* lines 42-48
PriorityTable ==
    [p \in {"default", "user", "project", "env", "cmd"} |->
        CASE p = "default" -> 0
          [] p = "user"    -> 10
          [] p = "project" -> 20
          [] p = "env"     -> 30
          [] p = "cmd"     -> 40]

\* str ordering (code points, lexicographic) of the priority names in use
StrOrd(s) ==
    CASE s = ""          -> 0
      [] s = "cmd"       -> 1
      [] s = "customize" -> 2
      [] s = "default"   -> 3
      [] s = "env"       -> 4
      [] s = "project"   -> 5
      [] s = "user"      -> 6

\* mutant of get_settings_priority: an unknown name takes the rank of "default"
get_settings_priority_default(table, priority) ==
    IF priority \in DOMAIN table
    THEN [exc |-> "none", rank |-> table[priority]]
    ELSE [exc |-> "none", rank |-> 0]

\* get_settings_priority: the rank, or KeyError
get_settings_priority(table, priority) ==
    IF priority \in DOMAIN table
    THEN [exc |-> "none", rank |-> table[priority]]
    ELSE [exc |-> "KeyError", rank |-> -1]

\* ------------------------------------------------------ SettingAttributes
setting_attributes(rank, priority, value) ==
    [rank |-> rank, priority |-> priority, value |-> value]

\* mutant of TupleLt: only the ranks are compared
TupleLt_rank(a, b) == a.rank < b.rank

\* tuple comparison a < b of two setting_attributes namedtuples
TupleLt(a, b) ==
    \/ a.rank < b.rank
    \/ /\ a.rank = b.rank
       /\ \/ StrOrd(a.priority) < StrOrd(b.priority)
          \/ /\ a.priority = b.priority
             /\ a.value < b.value

\* heapq._siftdown, positions 1-based: the parent of pos is pos \div 2
RECURSIVE _siftdown(_, _, _, _)
_siftdown(heap, startpos, pos, newitem) ==
    IF pos > startpos
    THEN LET parentpos == pos \div 2
             parent == heap[parentpos]
         IN  IF TupleLt(newitem, parent)
             THEN _siftdown([heap EXCEPT ![pos] = parent], startpos, parentpos, newitem)
             ELSE [heap EXCEPT ![pos] = newitem]
    ELSE [heap EXCEPT ![pos] = newitem]

\* mutant of heappush: heapreplace, the new item takes the place of the root
heappush_replace(heap, item) ==
    IF heap = <<>> THEN <<item>> ELSE [heap EXCEPT ![1] = item]

heappush(heap, item) ==
    _siftdown(Append(heap, item), 1, Len(heap) + 1, item)

\* max(iterable): the first greatest item
RECURSIVE max(_, _, _)
max(heap, i, best) ==
    IF i > Len(heap) THEN best
    ELSE max(heap, i + 1, IF TupleLt(best, heap[i]) THEN heap[i] ELSE best)

\* mutant of nlargest1: the ranks are looked up again when the history is read
nlargest1_rerank(heap) ==
    IF heap = <<>> THEN <<>>
    ELSE LET now == [i \in DOMAIN heap |->
                        [heap[i] EXCEPT !.rank = SETTING_PRIORITIES[heap[i].priority]]]
         IN  <<max(now, 2, now[1])>>

\* mutants of nlargest1: the root of the heap; the last item of the list
nlargest1_root(heap) ==
    IF heap = <<>> THEN <<>> ELSE <<heap[1]>>

nlargest1_last(heap) ==
    IF heap = <<>> THEN <<>> ELSE <<heap[Len(heap)]>>

\* heapq.nlargest(1, heap): [] or [max(heap)]
nlargest1(heap) ==
    IF heap = <<>> THEN <<>> ELSE <<max(heap, 2, heap[1])>>

\* mutant of SettingAttributes_set: no `if not priority: return`
SettingAttributes_set_nocheck(table, heap, value, priority) ==
    LET r == get_settings_priority(table, priority)
    IN  IF r.exc # "none"
        THEN [exc |-> r.exc, heap |-> heap]
        ELSE [exc |-> "none",
              heap |-> heappush(heap, setting_attributes(r.rank, priority, value))]

\* SettingAttributes.set: the heap afterwards and the exception raised
SettingAttributes_set(table, heap, value, priority) ==
    IF priority = ""
    THEN [exc |-> "none", heap |-> heap]
    ELSE LET r == get_settings_priority(table, priority)
         IN  IF r.exc # "none"
             THEN [exc |-> r.exc, heap |-> heap]
             ELSE [exc |-> "none",
                   heap |-> heappush(heap, setting_attributes(r.rank, priority, value))]

\* SettingAttributes.get / get_priority through _get
SettingAttributes_get(heap) ==
    LET max_values == nlargest1(heap)
    IN  IF max_values # <<>> THEN max_values[1].value ELSE None

SettingAttributes_get_priority(heap) ==
    LET max_values == nlargest1(heap)
    IN  IF max_values # <<>> THEN max_values[1].priority ELSE NonePriority

\* ----------------------------------------------------------- BaseSettings
\* dict.setdefault(key, SettingAttributes()): an empty history if absent
setdefault(data, key) ==
    IF key \in DOMAIN data THEN data ELSE (key :> <<>>) @@ data

\* the loop of update (and the single write of set): pairs written in order,
\* stopping at the first exception
RECURSIVE WritePairs(_, _, _, _)
WritePairs(table, data, pairs, priority) ==
    IF pairs = <<>>
    THEN [exc |-> "none", data |-> data]
    ELSE LET key == pairs[1][1]
             value == pairs[1][2]
             d1 == setdefault(data, key)
             r == SettingAttributes_set(table, d1[key], value, priority)
         IN  IF r.exc # "none"
             THEN [exc |-> r.exc, data |-> d1]
             ELSE WritePairs(table, [d1 EXCEPT ![key] = r.heap], Tail(pairs), priority)

\* mutant of iter_values: a Mapping is not taken for a source
iter_values_nomapping(kind, pairs) ==
    IF kind = "iterable"
    THEN [exc |-> "none", pairs |-> pairs]
    ELSE [exc |-> "TypeError", pairs |-> <<>>]

\* mutant of iter_values: no raise, an unsupported source yields no pair
iter_values_noraise(kind, pairs) ==
    [exc |-> "none", pairs |-> IF kind \in {"mapping", "iterable"} THEN pairs ELSE <<>>]

\* iter_values of update: the pairs of a Mapping or an Iterable, else TypeError
iter_values(kind, pairs) ==
    IF kind \in {"mapping", "iterable"}
    THEN [exc |-> "none", pairs |-> pairs]
    ELSE [exc |-> "TypeError", pairs |-> <<>>]

RECURSIVE SumLen(_, _)
SumLen(data, ks) ==
    IF ks = {} THEN 0
    ELSE LET k == CHOOSE x \in ks : TRUE
         IN  Len(data[k]) + SumLen(data, ks \ {k})

TotalRecords(data) == SumLen(data, DOMAIN data)

\* sources: sequences of (key, value) pairs; a mapping has distinct keys
PairSeqs ==
    {<<>>,
     <<<<"A", 1>>>>,
     <<<<"A", 2>>, <<"B", 1>>>>,
     <<<<"B", 2>>, <<"A", 1>>>>,
     <<<<"A", 1>>, <<"A", 2>>>>}
IsMapping(pairs) ==
    \A i, j \in 1..Len(pairs) : pairs[i][1] = pairs[j][1] => i = j

\* ------------------------------------------------------------------ Init
\* lines 135-136: the first two statements of BaseSettings.__init__
Init ==
    /\ SETTING_PRIORITIES = PriorityTable
    /\ _frozen = FALSE
    /\ _data = <<>>
    /\ scopes = <<>>
    /\ exc = "none"
    /\ pc = "new"
    /\ last = "none"
    /\ todo = <<>>

\* mutant of __init__: the store is not frozen at the end
__init___unfrozen(settings, priority) ==
    /\ pc = "new"
    /\ LET it == iter_values("mapping", settings)
           r == IF settings = <<>>
                THEN [exc |-> "none", data |-> _data]
                ELSE IF it.exc # "none"
                     THEN [exc |-> it.exc, data |-> _data]
                     ELSE WritePairs(SETTING_PRIORITIES, _data, it.pairs, priority)
       IN  /\ _data' = r.data
           /\ exc' = r.exc
           /\ pc' = IF r.exc = "none" THEN "ready" ELSE "failed"
           /\ last' = "__init__"
    /\ UNCHANGED <<SETTING_PRIORITIES, _frozen, scopes, todo>>

\* BaseSettings.__init__(settings, priority), lines 137-139:
\* if settings: self.update(settings, priority=priority); self._frozen = True
__init__(settings, priority) ==
    /\ pc = "new"
    /\ LET it == iter_values("mapping", settings)
           r == IF settings = <<>>
                THEN [exc |-> "none", data |-> _data]
                ELSE IF it.exc # "none"
                     THEN [exc |-> it.exc, data |-> _data]
                     ELSE WritePairs(SETTING_PRIORITIES, _data, it.pairs, priority)
       IN  /\ _data' = r.data
           /\ exc' = r.exc
           /\ _frozen' = IF r.exc = "none" THEN TRUE ELSE _frozen
           /\ pc' = IF r.exc = "none" THEN "ready" ELSE "failed"
           /\ last' = "__init__"
    /\ UNCHANGED <<SETTING_PRIORITIES, scopes, todo>>

Callable == pc = "ready" /\ exc = "none"

\* mutant of frozen_check: the decorator never raises
frozen_check_never(base_settings_frozen) == FALSE

\* FrozenCheck.frozen_check: raise before the method body runs
frozen_check(base_settings_frozen) == base_settings_frozen

\* BaseSettings.set: frozen_check, then
\* self._data.setdefault(key, SettingAttributes()).set(value, priority)
BaseSettings_set(key, value, priority) ==
    /\ Callable
    /\ last' = "set"
    /\ IF frozen_check(_frozen)
       THEN /\ exc' = "SettingsFrozenException"
            /\ UNCHANGED _data
       ELSE LET r == WritePairs(SETTING_PRIORITIES, _data, <<<<key, value>>>>, priority)
            IN  /\ _data' = r.data
                /\ exc' = r.exc
    /\ UNCHANGED <<SETTING_PRIORITIES, _frozen, scopes, pc>>

set(key, value, priority) ==
    /\ BaseSettings_set(key, value, priority)
    /\ UNCHANGED todo

\* mutant of __setitem__: the assignment replaces the history, as a dict would
__setitem___replace(key, value) ==
    /\ Callable
    /\ last' = "__setitem__"
    /\ IF frozen_check(_frozen)
       THEN /\ exc' = "SettingsFrozenException"
            /\ UNCHANGED _data
       ELSE LET d == [k \in DOMAIN _data \ {key} |-> _data[k]]
                r == WritePairs(SETTING_PRIORITIES, d, <<<<key, value>>>>, "project")
            IN  /\ _data' = r.data
                /\ exc' = r.exc
    /\ UNCHANGED <<SETTING_PRIORITIES, _frozen, scopes, pc, todo>>

\* BaseSettings.__setitem__: frozen_check, then self.set(key, value)
__setitem__(key, value) ==
    /\ Callable
    /\ last' = "__setitem__"
    /\ IF frozen_check(_frozen)
       THEN /\ exc' = "SettingsFrozenException"
            /\ UNCHANGED _data
       ELSE LET r == WritePairs(SETTING_PRIORITIES, _data, <<<<key, value>>>>, "project")
            IN  /\ _data' = r.data
                /\ exc' = r.exc
    /\ UNCHANGED <<SETTING_PRIORITIES, _frozen, scopes, pc, todo>>

\* mutant of __delitem__: only the top record of the history is removed
__delitem___top(key) ==
    /\ Callable
    /\ last' = "__delitem__"
    /\ IF frozen_check(_frozen)
       THEN /\ exc' = "SettingsFrozenException"
            /\ UNCHANGED _data
       ELSE IF key \in DOMAIN _data
            THEN /\ _data' = IF Len(_data[key]) > 1
                             THEN [_data EXCEPT ![key] = Tail(@)]
                             ELSE [k \in DOMAIN _data \ {key} |-> _data[k]]
                 /\ exc' = "none"
            ELSE /\ exc' = "KeyError"
                 /\ UNCHANGED _data
    /\ UNCHANGED <<SETTING_PRIORITIES, _frozen, scopes, pc, todo>>

\* BaseSettings.__delitem__: del self._data[key]
__delitem__(key) ==
    /\ Callable
    /\ last' = "__delitem__"
    /\ IF frozen_check(_frozen)
       THEN /\ exc' = "SettingsFrozenException"
            /\ UNCHANGED _data
       ELSE IF key \in DOMAIN _data
            THEN /\ _data' = [k \in DOMAIN _data \ {key} |-> _data[k]]
                 /\ exc' = "none"
            ELSE /\ exc' = "KeyError"
                 /\ UNCHANGED _data
    /\ UNCHANGED <<SETTING_PRIORITIES, _frozen, scopes, pc, todo>>

\* BaseSettings.update(values, priority=priority)
update(kind, pairs, priority) ==
    /\ Callable
    /\ last' = "update"
    /\ IF frozen_check(_frozen)
       THEN /\ exc' = "SettingsFrozenException"
            /\ UNCHANGED _data
       ELSE LET it == iter_values(kind, pairs)
                r == IF it.exc # "none"
                     THEN [exc |-> it.exc, data |-> _data]
                     ELSE WritePairs(SETTING_PRIORITIES, _data, it.pairs, priority)
            IN  /\ _data' = r.data
                /\ exc' = r.exc
    /\ UNCHANGED <<SETTING_PRIORITIES, _frozen, scopes, pc, todo>>

\* mutant of BaseSettings_get: dict.get, an absent key never raises
BaseSettings_get_dict(data, key, default) ==
    IF key \in DOMAIN data
    THEN [exc |-> "none", ret |-> SettingAttributes_get(data[key])]
    ELSE [exc |-> "none", ret |-> default]

\* mutant of BaseSettings_get: the test is `if default:`
BaseSettings_get_truthy(data, key, default) ==
    IF key \in DOMAIN data
    THEN [exc |-> "none", ret |-> SettingAttributes_get(data[key])]
    ELSE IF ~Falsy(default)
         THEN [exc |-> "none", ret |-> default]
         ELSE [exc |-> "KeyError", ret |-> None]

\* BaseSettings.get(key, default): the value returned or the exception;
\* default = None is the absent default
BaseSettings_get(data, key, default) ==
    IF key \in DOMAIN data
    THEN [exc |-> "none", ret |-> SettingAttributes_get(data[key])]
    ELSE IF default # None
         THEN [exc |-> "none", ret |-> default]
         ELSE [exc |-> "KeyError", ret |-> None]

\* BaseSettings.get_priority(k)
BaseSettings_get_priority(data, k) ==
    IF k \in DOMAIN data
    THEN [exc |-> "none", ret |-> SettingAttributes_get_priority(data[k])]
    ELSE [exc |-> "KeyError", ret |-> NonePriority]

\* mutant of get: the method carries the frozen_check decorator
get_frozen_checked(key, default) ==
    /\ Callable
    /\ last' = "get"
    /\ exc' = IF frozen_check(_frozen)
              THEN "SettingsFrozenException"
              ELSE BaseSettings_get(_data, key, default).exc
    /\ UNCHANGED <<SETTING_PRIORITIES, _frozen, _data, scopes, pc, todo>>

get(key, default) ==
    /\ Callable
    /\ last' = "get"
    /\ exc' = BaseSettings_get(_data, key, default).exc
    /\ UNCHANGED <<SETTING_PRIORITIES, _frozen, _data, scopes, pc, todo>>

\* BaseSettings.__getitem__: self.get(key)
__getitem__(key) ==
    /\ Callable
    /\ last' = "__getitem__"
    /\ exc' = BaseSettings_get(_data, key, None).exc
    /\ UNCHANGED <<SETTING_PRIORITIES, _frozen, _data, scopes, pc, todo>>

get_priority(k) ==
    /\ Callable
    /\ last' = "get_priority"
    /\ exc' = BaseSettings_get_priority(_data, k).exc
    /\ UNCHANGED <<SETTING_PRIORITIES, _frozen, _data, scopes, pc, todo>>

\* the results of __contains__, __iter__ (the keys it yields), __len__ and
\* is_frozen
BaseSettings_contains(data, key) == key \in DOMAIN data
BaseSettings_iter(data) == DOMAIN data
BaseSettings_len(data) == Cardinality(DOMAIN data)
BaseSettings_is_frozen(frozen) == frozen

\* BaseSettings.__contains__: key in self._data
__contains__(key) ==
    /\ Callable
    /\ last' = "__contains__"
    /\ exc' = "none"
    /\ UNCHANGED <<SETTING_PRIORITIES, _frozen, _data, scopes, pc, todo>>

\* BaseSettings.__iter__: iter(self._data)
__iter__ ==
    /\ Callable
    /\ last' = "__iter__"
    /\ exc' = "none"
    /\ UNCHANGED <<SETTING_PRIORITIES, _frozen, _data, scopes, pc, todo>>

\* BaseSettings.__len__: len(self._data)
__len__ ==
    /\ Callable
    /\ last' = "__len__"
    /\ exc' = "none"
    /\ UNCHANGED <<SETTING_PRIORITIES, _frozen, _data, scopes, pc, todo>>

\* BaseSettings.is_frozen: return self._frozen
is_frozen ==
    /\ Callable
    /\ last' = "is_frozen"
    /\ exc' = "none"
    /\ UNCHANGED <<SETTING_PRIORITIES, _frozen, _data, scopes, pc, todo>>

\* mutant of unfreeze_enter: the two statements swapped, status is read after
\* the flag was cleared
unfreeze_enter_swapped ==
    /\ Callable
    /\ scopes' = <<FALSE>> \o scopes
    /\ _frozen' = FALSE
    /\ last' = "unfreeze_enter"
    /\ UNCHANGED <<SETTING_PRIORITIES, _data, exc, pc, todo>>

\* unfreeze(), up to the yield: status = self._frozen; self._frozen = False
unfreeze_enter ==
    /\ Callable
    /\ scopes' = <<_frozen>> \o scopes
    /\ _frozen' = FALSE
    /\ last' = "unfreeze_enter"
    /\ UNCHANGED <<SETTING_PRIORITIES, _data, exc, pc, todo>>

\* mutant of unfreeze_finally: the scope always leaves the store frozen
unfreeze_finally_true(status) == TRUE

\* the finally clause of unfreeze(): self._frozen = status
unfreeze_finally(status) == status

\* the with block of the innermost scope ends normally
unfreeze_exit ==
    /\ Callable
    /\ scopes # <<>>
    /\ _frozen' = unfreeze_finally(Head(scopes))
    /\ scopes' = Tail(scopes)
    /\ last' = "unfreeze_exit"
    /\ UNCHANGED <<SETTING_PRIORITIES, _data, exc, pc, todo>>

\* mutant of unfreeze_exit_raise: no finally, the flag is not restored
unfreeze_exit_raise_nofinally ==
    /\ pc = "ready"
    /\ exc # "none"
    /\ scopes # <<>>
    /\ scopes' = Tail(scopes)
    /\ UNCHANGED <<SETTING_PRIORITIES, _frozen, _data, exc, pc, last, todo>>

\* an exception leaves the with block of the innermost scope
unfreeze_exit_raise ==
    /\ pc = "ready"
    /\ exc # "none"
    /\ scopes # <<>>
    /\ _frozen' = unfreeze_finally(Head(scopes))
    /\ scopes' = Tail(scopes)
    /\ UNCHANGED <<SETTING_PRIORITIES, _data, exc, pc, last, todo>>

\* the caller handles the exception where it is (assertRaises, except)
Catch ==
    /\ pc = "ready"
    /\ exc # "none"
    /\ exc' = "none"
    /\ UNCHANGED <<SETTING_PRIORITIES, _frozen, _data, scopes, pc, last, todo>>

\* SETTING_PRIORITIES[name] = rank
Register(name, rank) ==
    /\ Callable
    /\ SETTING_PRIORITIES' = (name :> rank) @@ SETTING_PRIORITIES
    /\ last' = "register"
    /\ UNCHANGED <<_frozen, _data, scopes, exc, pc, todo>>

\* the store never holds more than MaxRecords records
Bounded == TotalRecords(_data') <= MaxRecords

Next ==
    \/ \E s \in {x \in PairSeqs : IsMapping(x)}, p \in PriorityArgs : __init__(s, p)
    \/ \E k \in Keys, v \in Values, p \in PriorityArgs : set(k, v, p) /\ Bounded
    \/ \E k \in Keys, v \in Values : __setitem__(k, v) /\ Bounded
    \/ \E k \in Keys : __delitem__(k)
    \/ \E kind \in {"mapping", "iterable", "other"}, s \in PairSeqs, p \in PriorityArgs :
          /\ kind = "mapping" => IsMapping(s)
          /\ kind = "other" => s = <<>>
          /\ update(kind, s, p)
          /\ Bounded
    \/ \E k \in Keys, d \in Values \cup {None} : get(k, d)
    \/ \E k \in Keys : __getitem__(k)
    \/ \E k \in Keys : get_priority(k)
    \/ \E k \in Keys : __contains__(k)
    \/ __iter__
    \/ __len__
    \/ is_frozen
    \/ Len(scopes) < MaxDepth /\ unfreeze_enter
    \/ unfreeze_exit
    \/ unfreeze_exit_raise
    \/ Catch
    \/ \E r \in Registrations : Register(r[1], r[2])

Spec == Init /\ [][Next]_vars

\* ------------------------------------------------------------ SpecScope
\* A client of a constructed store, BaseSettings() or
\* BaseSettings({"A": 1}, priority="default"), that nests unfreeze scopes and
\* makes calls in them that fail: set with the unregistered "customize", del
\* of an absent key, update(1); exceptions are handled or leave the scopes.
InitScope ==
    /\ SETTING_PRIORITIES = PriorityTable
    /\ _frozen = TRUE
    /\ _data \in {<<>>, WritePairs(PriorityTable, <<>>, <<<<"A", 1>>>>, "default").data}
    /\ scopes = <<>>
    /\ exc = "none"
    /\ pc = "ready"
    /\ last = "__init__"
    /\ todo = <<>>

NextScope ==
    \/ Len(scopes) < MaxNest /\ unfreeze_enter
    \/ unfreeze_exit
    \/ unfreeze_exit_raise
    \/ Catch
    \/ \E k \in Keys, v \in Values : set(k, v, "customize")
    \/ \E k \in Keys : __delitem__(k)
    \/ update("other", <<>>, "project")

SpecScope == InitScope /\ [][NextScope]_vars

\* ------------------------------------------------------------- SpecPerm
\* A client inside one unfreeze scope of an empty store makes the same
\* writes todo.writes to key "A" and to key "B", each in an order of its own.
\* "customize" may be registered at the rank of "user" before the first write.
PermWrites == Values \X {"default", "user", "customize"}

InitPerm ==
    /\ SETTING_PRIORITIES = PriorityTable
    /\ _frozen = FALSE
    /\ _data = <<>>
    /\ scopes = <<TRUE>>
    /\ exc = "none"
    /\ pc = "ready"
    /\ last = "unfreeze_enter"
    /\ todo \in {[writes |-> w, A |-> DOMAIN w, B |-> DOMAIN w] :
                    w \in UNION {[1..n -> PermWrites] : n \in 1..MaxWrites}}

PermRegister ==
    /\ _data = <<>>
    /\ Register("customize", 10)

PermSet(k, i) ==
    /\ i \in todo[k]
    /\ \A j \in DOMAIN todo.writes : todo.writes[j][2] \in DOMAIN SETTING_PRIORITIES
    /\ BaseSettings_set(k, todo.writes[i][1], todo.writes[i][2])
    /\ todo' = [todo EXCEPT ![k] = @ \ {i}]

NextPerm ==
    \/ PermRegister
    \/ \E k \in Keys, i \in 1..MaxWrites : PermSet(k, i)

SpecPerm == InitPerm /\ [][NextPerm]_vars

\* ------------------------------------------------------------- SpecRank
\* A client inside one unfreeze scope of an empty store writes at "project",
\* "user" and "customize"; between the writes it re-registers "project",
\* below "user" (rank 5) and back at its first rank, and registers
\* "customize".
RankRegistrations == {<<"project", 5>>, <<"project", 20>>, <<"customize", 25>>}
RankArgs == {"project", "user", "customize"}

InitRank ==
    /\ SETTING_PRIORITIES = PriorityTable
    /\ _frozen = FALSE
    /\ _data = <<>>
    /\ scopes = <<TRUE>>
    /\ exc = "none"
    /\ pc = "ready"
    /\ last = "unfreeze_enter"
    /\ todo = <<>>

NextRank ==
    \/ \E r \in RankRegistrations : Register(r[1], r[2])
    \/ \E k \in Keys, v \in Values, p \in RankArgs : set(k, v, p) /\ Bounded
    \/ \E k \in Keys, v \in Values : __setitem__(k, v) /\ Bounded
    \/ \E k \in Keys : __delitem__(k)
    \/ Catch

SpecRank == InitRank /\ [][NextRank]_vars

\* ---------------------------------------------------------- SpecDefault
\* A client of a constructed store that writes and deletes in unfreeze scopes
\* and reads with get(key), get(key, 0) and get(key, '').
NextDefault ==
    \/ Len(scopes) < MaxDepth /\ unfreeze_enter
    \/ unfreeze_exit
    \/ unfreeze_exit_raise
    \/ Catch
    \/ \E k \in Keys, v \in Values : set(k, v, "project") /\ Bounded
    \/ \E k \in Keys : __delitem__(k)
    \/ \E k \in Keys, d \in FalsyDefaults \cup {None} : get(k, d)

SpecDefault == InitScope /\ [][NextDefault]_vars

\* --------------------------------------------------------- SpecSettings
\* Settings(settings, priority, config): the inputs of one construction are
\* held in todo: the constructor's mapping and priority, the upper-case
\* attributes of the defaults module, the user file (path_config: whether it
\* exists, dict_config: what yaml.safe_load gives) and os.environ.
SettingsMaps ==
    {<<>>,
     <<<<"A", 1>>>>,
     <<<<"A", 2>>>>,
     <<<<"B", 1>>>>,
     <<<<"A", 1>>, <<"B", 2>>>>,
     <<<<"A", 2>>, <<"B", 1>>>>}
SettingsPriorities == {"", "cmd", "user", "customize"}
\* names of environment variables: the string prefix + rest
EnvNames ==
    {[prefix |-> "MINOTAUR_", rest |-> "A"],
     [prefix |-> "MINOTAUR_", rest |-> "B"],
     [prefix |-> "", rest |-> "A"]}
Environs == UNION {[names -> Values] : names \in SUBSET EnvNames}

\* k.startswith("MINOTAUR_") and k.replace("MINOTAUR_", "", 1)
startswith(name) == name.prefix = "MINOTAUR_"
replace(name) == name.rest

\* mutant of environ_items: no test of the prefix
RECURSIVE environ_items_noprefix(_, _)
environ_items_noprefix(environ, names) ==
    IF names = {} THEN <<>>
    ELSE LET n == CHOOSE x \in names : TRUE
         IN  <<<<replace(n), environ[n]>>>> \o environ_items_noprefix(environ, names \ {n})

\* the (key, value) pairs the loop over os.environ.items() writes
RECURSIVE environ_items(_, _)
environ_items(environ, names) ==
    IF names = {} THEN <<>>
    ELSE LET n == CHOOSE x \in names : TRUE
             rest == environ_items(environ, names \ {n})
         IN  IF startswith(n) THEN <<<<replace(n), environ[n]>>>> \o rest ELSE rest

\* one self.set / self.update of the constructor: not reached after an
\* exception, frozen_check first
SettingsWrite(r, frozen, pairs, priority) ==
    IF r.exc # "none" THEN r
    ELSE IF frozen_check(frozen)
         THEN [exc |-> "SettingsFrozenException", data |-> r.data]
         ELSE WritePairs(SETTING_PRIORITIES, r.data, pairs, priority)

\* Settings.__init__, lines 263-282
Settings___init__(settings, priority, module, path_config, dict_config, environ) ==
    /\ pc = "new"
    /\ LET it == iter_values("mapping", settings)
           r0 == IF settings = <<>>
                 THEN [exc |-> "none", data |-> _data]
                 ELSE WritePairs(SETTING_PRIORITIES, _data, it.pairs, priority)
           status == TRUE
           inner == FALSE
           r1 == SettingsWrite(r0, inner, module, "default")
           r2 == IF path_config
                 THEN SettingsWrite(r1, inner, iter_values("mapping", dict_config).pairs, "user")
                 ELSE r1
           r3 == SettingsWrite(r2, inner, environ_items(environ, DOMAIN environ), "env")
       IN  /\ _data' = r3.data
           /\ exc' = r3.exc
           /\ _frozen' = IF r0.exc = "none" THEN unfreeze_finally(status) ELSE _frozen
           /\ pc' = IF r3.exc = "none" THEN "ready" ELSE "failed"
           /\ last' = "Settings.__init__"
    /\ UNCHANGED <<SETTING_PRIORITIES, scopes, todo>>

InitSettings ==
    /\ SETTING_PRIORITIES = PriorityTable
    /\ _frozen = FALSE
    /\ _data = <<>>
    /\ scopes = <<>>
    /\ exc = "none"
    /\ pc = "new"
    /\ last = "none"
    /\ todo \in {[settings |-> s, priority |-> p, module |-> m,
                  path_config |-> f, dict_config |-> c, environ |-> e] :
                    s \in SettingsMaps, p \in SettingsPriorities, m \in SettingsMaps,
                    f \in BOOLEAN, c \in SettingsMaps, e \in Environs}
    /\ ~todo.path_config => todo.dict_config = <<>>

NextSettings ==
    \/ Settings___init__(todo.settings, todo.priority, todo.module,
                         todo.path_config, todo.dict_config, todo.environ)
    \/ \E k \in Keys, v \in Values : set(k, v, "cmd")
    \/ Catch

SpecSettings == InitSettings /\ [][NextSettings]_vars

\* ---------------------------------------------------------- SpecThreads
\* Two threads each run `with s.unfreeze(): pass` on one constructed store.
\* A thread switch can fall between any two statements of unfreeze(), so each
\* thread takes three steps: status = self._frozen; self._frozen = False
\* (then the yield and the empty with block); self._frozen = status.
\* todo holds each thread's position and its local `status`, and the order
\* of the steps taken. Once both threads are done the main thread calls set.
Threads == {"t1", "t2"}

InitThreads ==
    /\ SETTING_PRIORITIES = PriorityTable
    /\ _frozen = TRUE
    /\ _data \in {<<>>, WritePairs(PriorityTable, <<>>, <<<<"A", 1>>>>, "default").data}
    /\ scopes = <<>>
    /\ exc = "none"
    /\ pc = "ready"
    /\ last = "__init__"
    /\ todo = [at |-> [t \in Threads |-> "start"],
               status |-> [t \in Threads |-> FALSE],
               log |-> <<>>]

\* status: bool = self._frozen
thread_status(t) ==
    /\ todo.at[t] = "start"
    /\ todo' = [todo EXCEPT !.at[t] = "status", !.status[t] = _frozen,
                            !.log = Append(@, <<"status", t>>)]
    /\ last' = "unfreeze_enter"
    /\ UNCHANGED <<SETTING_PRIORITIES, _frozen, _data, scopes, exc, pc>>

\* self._frozen = False, and the yield
thread_enter(t) ==
    /\ todo.at[t] = "status"
    /\ _frozen' = FALSE
    /\ todo' = [todo EXCEPT !.at[t] = "yield", !.log = Append(@, <<"enter", t>>)]
    /\ last' = "unfreeze_enter"
    /\ UNCHANGED <<SETTING_PRIORITIES, _data, scopes, exc, pc>>

\* mutant of thread_exit: no finally clause, the flag is left as it is
thread_exit_norestore(t) ==
    /\ todo.at[t] = "yield"
    /\ todo' = [todo EXCEPT !.at[t] = "done", !.log = Append(@, <<"exit", t>>)]
    /\ last' = "unfreeze_exit"
    /\ UNCHANGED <<SETTING_PRIORITIES, _frozen, _data, scopes, exc, pc>>

\* the with block ends: finally self._frozen = status
thread_exit(t) ==
    /\ todo.at[t] = "yield"
    /\ _frozen' = unfreeze_finally(todo.status[t])
    /\ todo' = [todo EXCEPT !.at[t] = "done", !.log = Append(@, <<"exit", t>>)]
    /\ last' = "unfreeze_exit"
    /\ UNCHANGED <<SETTING_PRIORITIES, _data, scopes, exc, pc>>

ThreadsDone == \A t \in Threads : todo.at[t] = "done"

NextThreads ==
    \/ \E t \in Threads : thread_status(t)
    \/ \E t \in Threads : thread_enter(t)
    \/ \E t \in Threads : thread_exit(t)
    \/ \E k \in Keys, v \in Values : ThreadsDone /\ set(k, v, "project") /\ Bounded
    \/ \E k \in Keys : ThreadsDone /\ __delitem__(k)
    \/ ThreadsDone /\ Catch

SpecThreads == InitThreads /\ [][NextThreads]_vars

\* ================================================================ claims
Writers == {"__init__", "set", "__setitem__", "update"}
Mutators == {"set", "__setitem__", "__delitem__", "update"}
Readers == {"get", "__getitem__", "get_priority"}

\* the records of a history, and how often each occurs
RecordsOf(heap) == {heap[i] : i \in DOMAIN heap}
Count(heap, rec) == Cardinality({i \in DOMAIN heap : heap[i] = rec})
MaxRank(heap) == CHOOSE n \in {r.rank : r \in RecordsOf(heap)} :
                     \A r \in RecordsOf(heap) : r.rank <= n
\* the records of heap2 that heap1 does not account for
NewRecords(heap1, heap2) ==
    {r \in RecordsOf(heap2) : Count(heap2, r) > Count(heap1, r)}

\* get(k) and get_priority(k) are fields of one record of greatest rank
SameRecordOfGreatestRank(heap) ==
    \E r \in RecordsOf(heap) :
        /\ r.value = SettingAttributes_get(heap)
        /\ r.priority = SettingAttributes_get_priority(heap)
        /\ r.rank = MaxRank(heap)

\* C1: after successful set/update calls on a key, get and get_priority are
\* the value and the priority name of one record, which has the greatest rank
\* of the key's records; a successful write of records that all rank strictly
\* below an existing record changes neither get nor get_priority of the key.
C1_GreatestRankWins ==
    /\ [](\A k \in DOMAIN _data :
              _data[k] # <<>> => SameRecordOfGreatestRank(_data[k]))
    /\ [][(exc = "none" /\ exc' = "none" /\ last' \in Writers) =>
              \A k \in DOMAIN _data \cap DOMAIN _data' :
                  (/\ _data[k] # <<>>
                   /\ \A r \in NewRecords(_data[k], _data'[k]) :
                          r.rank < MaxRank(_data[k]))
                  => /\ SettingAttributes_get(_data'[k]) = SettingAttributes_get(_data[k])
                     /\ SettingAttributes_get_priority(_data'[k])
                            = SettingAttributes_get_priority(_data[k])]_vars

\* a key holds a lower-ranked record of greater value than the effective one
C1_Witness ==
    /\ last = "set"
    /\ exc = "none"
    /\ \E k \in DOMAIN _data :
           /\ Len(_data[k]) >= 2
           /\ \E r \in RecordsOf(_data[k]) :
                  /\ r.rank < MaxRank(_data[k])
                  /\ r.value > SettingAttributes_get(_data[k])

\* C2: on a frozen store set, del, item assignment and update raise
\* SettingsFrozenException and leave keys, histories and the flag as they were.
C2_FrozenRejectsMutation ==
    [][(pc = "ready" /\ exc = "none" /\ _frozen /\ last' \in Mutators) =>
           /\ exc' = "SettingsFrozenException"
           /\ _data' = _data
           /\ _frozen' = _frozen
           /\ scopes' = scopes
           /\ SETTING_PRIORITIES' = SETTING_PRIORITIES]_vars

C2_Witness ==
    /\ _frozen
    /\ exc = "SettingsFrozenException"
    /\ last = "update"
    /\ DOMAIN _data # {}

\* C3: inside any unfreeze scope the store is unfrozen; when a scope's with
\* block ends the flag is what it was at that scope's entry: still unfrozen
\* while an outer scope is active, frozen once the outermost scope has exited.
C3_NestedUnfreeze ==
    /\ [](scopes # <<>> => ~_frozen)
    /\ [][(exc = "none" /\ Len(scopes') < Len(scopes)) =>
              /\ _frozen' = (scopes' = <<>>)
              /\ _frozen' = scopes[1]]_vars

\* the inner of two nested scopes has exited, the outer one is active
C3_Witness ==
    /\ last = "unfreeze_exit"
    /\ exc = "none"
    /\ Len(scopes) = 1
    /\ ~_frozen

\* the (rank, priority, value) triples of the client's writes
PermTriples ==
    {setting_attributes(SETTING_PRIORITIES[todo.writes[i][2]],
                        todo.writes[i][2], todo.writes[i][1]) :
         i \in DOMAIN todo.writes}
GreatestTriple ==
    CHOOSE r \in PermTriples :
        \A q \in PermTriples :
            \/ q.rank < r.rank
            \/ q.rank = r.rank /\ StrOrd(q.priority) < StrOrd(r.priority)
            \/ q.rank = r.rank /\ q.priority = r.priority /\ q.value <= r.value
PermDone == todo.A = {} /\ todo.B = {}

\* C4: whatever the order in which set applies one multiset of writes with
\* registered priority names to a key, get and get_priority are the value and
\* the name of the greatest (rank, priority name, value) triple.
C4_PermutationInvariance ==
    PermDone =>
        \A k \in Keys :
            /\ BaseSettings_get(_data, k, None) =
                   [exc |-> "none", ret |-> GreatestTriple.value]
            /\ BaseSettings_get_priority(_data, k) =
                   [exc |-> "none", ret |-> GreatestTriple.priority]

\* three writes, two of them tied at the greatest rank under different names,
\* applied in two orders that left different heaps
C4_Witness ==
    /\ PermDone
    /\ Len(todo.writes) = 3
    /\ _data["A"] # _data["B"]
    /\ \E r, q \in PermTriples :
           r.rank = q.rank /\ r.priority # q.priority /\ r.rank = GreatestTriple.rank

\* a priority name of the table that callers pass
RegisteredArgs == PriorityArgs \cap DOMAIN SETTING_PRIORITIES
HistoryOf(data, k) == IF k \in DOMAIN data THEN data[k] ELSE <<>>
KeysOf(pairs) == {pairs[i][1] : i \in DOMAIN pairs}

\* C5: on an unfrozen store set with an unregistered priority name raises
\* KeyError and leaves keys and histories as they were; with a registered name
\* set succeeds and, the key having no record, get returns the value.
C5_UnknownPriorityLeavesStore ==
    [][(pc = "ready" /\ exc = "none" /\ ~_frozen /\ last' = "set") =>
           \A k \in Keys, v \in Values, p \in PriorityArgs \ {""} :
               set(k, v, p) =>
                   IF p \notin DOMAIN SETTING_PRIORITIES
                   THEN /\ exc' = "KeyError"
                        /\ _data' = _data
                   ELSE /\ exc' = "none"
                        /\ HistoryOf(_data, k) = <<>> =>
                               BaseSettings_get(_data', k, None).ret = v]_vars

\* C6: on an unfrozen store del of a present key removes the key with its
\* whole history and nothing else, del of an absent key raises KeyError and
\* changes nothing, and set of an absent key with a registered priority starts
\* a history of that one record.
C6_DeleteRemovesHistory ==
    [][(pc = "ready" /\ exc = "none" /\ ~_frozen) =>
           /\ \A k \in Keys :
                  __delitem__(k) =>
                      IF k \in DOMAIN _data
                      THEN /\ exc' = "none"
                           /\ k \notin DOMAIN _data'
                           /\ Cardinality(DOMAIN _data') = Cardinality(DOMAIN _data) - 1
                           /\ BaseSettings_get(_data', k, None).exc = "KeyError"
                           /\ \A j \in DOMAIN _data \ {k} :
                                  j \in DOMAIN _data' /\ _data'[j] = _data[j]
                      ELSE /\ exc' = "KeyError"
                           /\ _data' = _data
           /\ \A k \in Keys \ DOMAIN _data, v \in Values, p \in RegisteredArgs :
                  set(k, v, p) =>
                      /\ exc' = "none"
                      /\ Len(_data'[k]) = 1
                      /\ BaseSettings_get(_data', k, None).ret = v
                      /\ BaseSettings_get_priority(_data', k).ret = p]_vars

\* a key was deleted while the other key stays
C6_Witness ==
    /\ last = "__delitem__"
    /\ exc = "none"
    /\ Cardinality(DOMAIN _data) = 1
    /\ \E k \in DOMAIN _data : _data[k] # <<>>

\* C7: when an exception leaves an unfreeze scope the flag is restored to the
\* value recorded at the scope's entry, so with no scope left the store is
\* frozen again while the exception propagates on.
C7_ErrorExitRestores ==
    /\ [](scopes = <<>> => _frozen)
    /\ [][(exc # "none" /\ Len(scopes') < Len(scopes)) =>
              /\ _frozen' = scopes[1]
              /\ exc' = exc]_vars

\* an update with an unsupported source failed in a scope and has left it
C7_Witness ==
    /\ pc = "ready"
    /\ exc = "TypeError"
    /\ scopes = <<>>
    /\ _frozen

\* C8: for an absent key get without default, s[key] and get_priority raise
\* KeyError and get with a default returns the default; for a present key get
\* returns the effective value whatever the default; no read changes the store.
C8_AbsentKeyReads ==
    /\ [](/\ \A k \in Keys \ DOMAIN _data :
                 /\ BaseSettings_get(_data, k, None) = [exc |-> "KeyError", ret |-> None]
                 /\ BaseSettings_get_priority(_data, k).exc = "KeyError"
                 /\ \A d \in Values :
                        BaseSettings_get(_data, k, d) = [exc |-> "none", ret |-> d]
          /\ \A k \in DOMAIN _data, d \in Values \cup {None} :
                 BaseSettings_get(_data, k, d) =
                     [exc |-> "none", ret |-> SettingAttributes_get(_data[k])])
    /\ [][(pc = "ready" /\ exc = "none" /\ last' \in Readers) =>
              /\ UNCHANGED <<SETTING_PRIORITIES, _frozen, _data, scopes, pc>>
              /\ \A k \in Keys :
                     /\ (\E d \in Values : get(k, d)) => exc' = "none"
                     /\ get(k, None) =>
                            exc' = IF k \in DOMAIN _data THEN "none" ELSE "KeyError"
                     /\ __getitem__(k) =>
                            exc' = IF k \in DOMAIN _data THEN "none" ELSE "KeyError"
                     /\ get_priority(k) =>
                            exc' = IF k \in DOMAIN _data THEN "none" ELSE "KeyError"]_vars

\* get_priority of an absent key raised while another key is present
C8_Witness ==
    /\ last = "get_priority"
    /\ exc = "KeyError"
    /\ DOMAIN _data # {}

\* C9: the store BaseSettings.__init__ returns is frozen; built from no
\* mapping it has no keys, built from a mapping at a priority of the table it
\* has the mapping's keys, each with its value and that priority.
C9_ConstructorFreezes ==
    [][pc = "new" =>
           /\ pc' = "ready" => _frozen'
           /\ \A s \in PairSeqs, p \in PriorityArgs :
                  (IsMapping(s) /\ __init__(s, p)) =>
                      /\ s = <<>> => (pc' = "ready" /\ _data' = <<>>)
                      /\ p \in DOMAIN SETTING_PRIORITIES =>
                             /\ pc' = "ready"
                             /\ DOMAIN _data' = KeysOf(s)
                             /\ \A i \in DOMAIN s :
                                    /\ BaseSettings_get(_data', s[i][1], None).ret = s[i][2]
                                    /\ BaseSettings_get_priority(_data', s[i][1]).ret = p]_vars

\* a store was built from a mapping of two keys at priority "default"
C9_Witness ==
    /\ last = "__init__"
    /\ pc = "ready"
    /\ _frozen
    /\ Cardinality(DOMAIN _data) = 2
    /\ \A k \in DOMAIN _data : BaseSettings_get_priority(_data, k).ret = "default"

\* how often update(pairs, priority=p) writes record rec to key k
Added(pairs, p, k, rec) ==
    IF rec.priority = p /\ rec.rank = SETTING_PRIORITIES[p]
    THEN Cardinality({i \in DOMAIN pairs : pairs[i] = <<k, rec.value>>})
    ELSE 0
Supplied(pairs, k) == {pairs[i][2] : i \in {j \in DOMAIN pairs : pairs[j][1] = k}}

\* C10: on an unfrozen store update of a mapping or of a sequence of pairs at
\* a registered priority p adds one record (rank(p), p, v) per pair (k, v) and
\* nothing else; a source key without a record before is contained afterwards
\* with a supplied value (the greatest, if the source repeats the key) and
\* priority p; a mapping and the sequence of its items act alike.
C10_UpdateWritesEachPair ==
    [][(pc = "ready" /\ exc = "none" /\ ~_frozen /\ last' = "update") =>
           \A kind \in {"mapping", "iterable"}, s \in PairSeqs, p \in RegisteredArgs :
               ((kind = "mapping" => IsMapping(s)) /\ update(kind, s, p)) =>
                   /\ exc' = "none"
                   /\ DOMAIN _data' = DOMAIN _data \cup KeysOf(s)
                   /\ \A k \in DOMAIN _data' :
                          /\ \A rec \in RecordsOf(_data'[k]) \cup RecordsOf(HistoryOf(_data, k))
                                        \cup {setting_attributes(SETTING_PRIORITIES[p], p, v) :
                                                  v \in Values} :
                                 Count(_data'[k], rec) =
                                     Count(HistoryOf(_data, k), rec) + Added(s, p, k, rec)
                          /\ k \notin KeysOf(s) => _data'[k] = _data[k]
                   /\ \A k \in KeysOf(s) :
                          HistoryOf(_data, k) = <<>> =>
                              /\ BaseSettings_get(_data', k, None).ret \in Supplied(s, k)
                              /\ \A v \in Supplied(s, k) :
                                     v <= BaseSettings_get(_data', k, None).ret
                              /\ BaseSettings_get_priority(_data', k).ret = p
                   /\ IsMapping(s) => (update("mapping", s, p) /\ update("iterable", s, p))]_vars

\* an update of two pairs on a store that held a record
C10_Witness ==
    /\ last = "update"
    /\ exc = "none"
    /\ Cardinality(DOMAIN _data) = 2
    /\ TotalRecords(_data) = 3

\* what the content reads return for every key and default
AllReaders == Readers \cup {"__contains__", "__iter__", "__len__", "is_frozen"}
ReadResults ==
    [get |-> [k \in Keys |-> [d \in Values \cup {None} |-> BaseSettings_get(_data, k, d)]],
     get_priority |-> [k \in Keys |-> BaseSettings_get_priority(_data, k)],
     contains |-> [k \in Keys |-> BaseSettings_contains(_data, k)],
     iter |-> BaseSettings_iter(_data),
     len |-> BaseSettings_len(_data)]

\* C11: get, get_priority, item read, membership test, iteration, len and
\* is_frozen never raise SettingsFrozenException; frozen or not they succeed
\* or raise KeyError by the content alone, they leave keys, histories, flag,
\* scopes and table as they were, and a step that changes only the flag
\* changes no result of a content read (is_frozen returns the flag).
C11_ReadsBypassFreeze ==
    /\ [][(pc = "ready" /\ exc = "none" /\ last' \in AllReaders) =>
              /\ exc' # "SettingsFrozenException"
              /\ UNCHANGED <<SETTING_PRIORITIES, _frozen, _data, scopes, pc>>
              /\ BaseSettings_is_frozen(_frozen') = BaseSettings_is_frozen(_frozen)
              /\ \A k \in Keys :
                     /\ (\E d \in Values : get(k, d)) => exc' = "none"
                     /\ (get(k, None) \/ __getitem__(k) \/ get_priority(k)) =>
                            exc' = IF k \in DOMAIN _data THEN "none" ELSE "KeyError"
                     /\ __contains__(k) => exc' = "none"
              /\ (__iter__ \/ __len__ \/ is_frozen) => exc' = "none"]_vars
    /\ [][_frozen' # _frozen =>
              (_data' = _data => ReadResults' = ReadResults)]_vars

\* a read of a present key succeeded on a frozen store that holds two keys
C11_Witness ==
    /\ _frozen
    /\ last = "get"
    /\ exc = "none"
    /\ scopes = <<>>
    /\ Cardinality(DOMAIN _data) = 2

\* the records of a history that share its greatest rank
TopRecords(heap) == {r \in RecordsOf(heap) : r.rank = MaxRank(heap)}

\* C12 as claimed: among the records that share the greatest rank of a key
\* the one of greatest value wins, whatever the priority names of the tied
\* records.
C12_TieByValue ==
    \A k \in DOMAIN _data :
        _data[k] # <<>> =>
            \A r \in TopRecords(_data[k]) : r.value <= SettingAttributes_get(_data[k])

\* C12 amended: among the records that share the greatest rank of a key the
\* winner carries the priority name that compares greatest as a string, and
\* among the tied records of that name the greatest value; write order does
\* not matter.
C12_TieByNameThenValue ==
    \A k \in DOMAIN _data :
        _data[k] # <<>> =>
            \E w \in TopRecords(_data[k]) :
                /\ w.value = SettingAttributes_get(_data[k])
                /\ w.priority = SettingAttributes_get_priority(_data[k])
                /\ \A r \in TopRecords(_data[k]) :
                       \/ StrOrd(r.priority) < StrOrd(w.priority)
                       \/ r.priority = w.priority /\ r.value <= w.value

\* the same three writes made in two orders: two tied records of one name
\* with different values, and a tied record whose value is greater than the
\* winner's
C12_Witness ==
    /\ PermDone
    /\ _data["A"] # _data["B"]
    /\ \E r, q \in TopRecords(_data["A"]) : r.priority = q.priority /\ r.value # q.value
    /\ \E r \in TopRecords(_data["A"]) : r.value > SettingAttributes_get(_data["A"])

\* C13: registering a priority name again changes no history and no result
\* of get or get_priority; a later set at that name adds one record of the
\* rank registered at the time of the call and keeps every earlier record
\* with the rank it was written at; the effective record is one of greatest
\* stored rank, so a record written as "project" at rank 20 still wins over
\* records written as "project" after "project" was registered at rank 5
\* (and over every other record of a rank up to 20).
C13_RankCapturedAtWrite ==
    /\ [](\A k \in DOMAIN _data :
              _data[k] # <<>> => SettingAttributes_get_priority(_data[k]) \in
                                    {r.priority : r \in TopRecords(_data[k])})
    /\ [](\A k \in DOMAIN _data :
              (/\ \E r \in RecordsOf(_data[k]) : r.priority = "project" /\ r.rank = 20
               /\ \A q \in RecordsOf(_data[k]) : q.rank <= 20) =>
                  /\ BaseSettings_get_priority(_data, k).ret = "project"
                  /\ \E r \in RecordsOf(_data[k]) :
                         /\ r.rank = 20
                         /\ r.value = BaseSettings_get(_data, k, None).ret)
    /\ [][SETTING_PRIORITIES' # SETTING_PRIORITIES =>
              /\ _data' = _data
              /\ ReadResults' = ReadResults]_vars
    /\ [][(pc = "ready" /\ exc = "none" /\ ~_frozen /\ last' = "set") =>
              \A k \in Keys, v \in Values, p \in DOMAIN SETTING_PRIORITIES :
                  set(k, v, p) =>
                      /\ exc' = "none"
                      /\ NewRecords(HistoryOf(_data, k), _data'[k]) =
                             {setting_attributes(SETTING_PRIORITIES[p], p, v)}
                      /\ Len(_data'[k]) = Len(HistoryOf(_data, k)) + 1
                      /\ \A r \in RecordsOf(HistoryOf(_data, k)) :
                             Count(_data'[k], r) >= Count(HistoryOf(_data, k), r)]_vars

\* "project" stands at rank 5 and a key holds a record written as "project"
\* at rank 20 and a later one of greater value written at rank 5
C13_Witness ==
    /\ SETTING_PRIORITIES["project"] = 5
    /\ last = "set"
    /\ exc = "none"
    /\ \E k \in DOMAIN _data :
           /\ \E r, q \in RecordsOf(_data[k]) :
                  /\ r.priority = "project" /\ r.rank = 20
                  /\ q.priority = "project" /\ q.rank = 5
                  /\ q.value > r.value
           /\ BaseSettings_get(_data, k, None).ret = 1

\* C14 as claimed: get of an absent key with the default 0 or '' raises
\* KeyError, as get without default does.
C14_FalsyDefaultRaises ==
    [][(pc = "ready" /\ exc = "none" /\ last' = "get") =>
           \A k \in Keys \ DOMAIN _data, d \in FalsyDefaults :
               get(k, d) => exc' = "KeyError"]_vars

\* C14 amended: get of an absent key with the default 0 or '' returns that
\* default; only the default None is taken for no default and raises
\* KeyError.
C14_FalsyDefaultReturned ==
    /\ [](\A k \in Keys \ DOMAIN _data :
              /\ \A d \in FalsyDefaults :
                     BaseSettings_get(_data, k, d) = [exc |-> "none", ret |-> d]
              /\ BaseSettings_get(_data, k, None).exc = "KeyError")
    /\ [][(pc = "ready" /\ exc = "none" /\ last' = "get") =>
              \A k \in Keys \ DOMAIN _data :
                  /\ \A d \in FalsyDefaults : get(k, d) => exc' = "none"
                  /\ get(k, None) => exc' = "KeyError"]_vars

\* get succeeded inside a scope on a store without keys: 0 or '' was returned
C14_Witness ==
    /\ last = "get"
    /\ exc = "none"
    /\ DOMAIN _data = {}
    /\ ~_frozen

\* C15: on an unfrozen store update of a source that is neither a mapping nor
\* an iterable raises TypeError, whatever the priority, and leaves keys,
\* histories, flag and scopes as they were; when the TypeError leaves the
\* enclosing scope the flag is restored to the value saved at entry and the
\* error propagates on with keys and histories untouched.
C15_UnsupportedSource ==
    /\ [][(pc = "ready" /\ exc = "none" /\ ~_frozen /\ last' = "update") =>
              \A p \in PriorityArgs :
                  update("other", <<>>, p) =>
                      /\ exc' = "TypeError"
                      /\ _data' = _data
                      /\ _frozen' = _frozen
                      /\ scopes' = scopes
                      /\ SETTING_PRIORITIES' = SETTING_PRIORITIES]_vars
    /\ [][(exc = "TypeError" /\ Len(scopes') < Len(scopes)) =>
              /\ _frozen' = Head(scopes)
              /\ exc' = "TypeError"
              /\ _data' = _data]_vars

\* the TypeError of an update has left the scope of a store that holds keys
C15_Witness ==
    /\ last = "update"
    /\ exc = "TypeError"
    /\ scopes = <<>>
    /\ _frozen
    /\ DOMAIN _data # {}

\* C16: the table starts as default=0, user=10, project=20, env=30, cmd=40;
\* a write at a name of the table takes the rank the table holds for it at
\* that moment; a write at a name that is not in the table raises KeyError
\* and adds no entry; after SETTING_PRIORITIES[name] = r the lookup of name
\* gives r and the other entries are as before; no operation of the store
\* changes the table, and no entry is ever removed.
C16_PriorityTable ==
    /\ [](last = "unfreeze_enter" =>
              SETTING_PRIORITIES =
                  [default |-> 0, user |-> 10, project |-> 20, env |-> 30, cmd |-> 40])
    /\ [][(pc = "ready" /\ exc = "none" /\ ~_frozen /\ last' = "set") =>
              \A k \in Keys, v \in Values, p \in RankArgs :
                  set(k, v, p) =>
                      IF p \in DOMAIN SETTING_PRIORITIES
                      THEN /\ exc' = "none"
                           /\ \A r \in NewRecords(HistoryOf(_data, k), _data'[k]) :
                                  r.rank = SETTING_PRIORITIES[p]
                      ELSE /\ exc' = "KeyError"
                           /\ p \notin DOMAIN SETTING_PRIORITIES']_vars
    /\ [][SETTING_PRIORITIES' # SETTING_PRIORITIES =>
              /\ last' = "register"
              /\ \A r \in RankRegistrations :
                     Register(r[1], r[2]) =>
                         /\ get_settings_priority(SETTING_PRIORITIES', r[1]) =
                                [exc |-> "none", rank |-> r[2]]
                         /\ DOMAIN SETTING_PRIORITIES' = DOMAIN SETTING_PRIORITIES \cup {r[1]}
                         /\ \A n \in DOMAIN SETTING_PRIORITIES \ {r[1]} :
                                SETTING_PRIORITIES'[n] = SETTING_PRIORITIES[n]]_vars
    /\ [][/\ DOMAIN SETTING_PRIORITIES \subseteq DOMAIN SETTING_PRIORITIES'
           /\ last' # "register" => SETTING_PRIORITIES' = SETTING_PRIORITIES]_vars

\* "customize" was registered, "project" re-registered at rank 5, and a key
\* holds a record written at each of them afterwards
C16_Witness ==
    /\ SETTING_PRIORITIES["project"] = 5
    /\ "customize" \in DOMAIN SETTING_PRIORITIES
    /\ \E k \in DOMAIN _data :
           /\ setting_attributes(5, "project", 1) \in RecordsOf(_data[k])
           /\ setting_attributes(25, "customize", 1) \in RecordsOf(_data[k])

\* C17 as claimed: inside an unfreeze scope s[k] = v is followed by
\* s[k] == v and get_priority(k) == 'project', for every key and every store.
C17_SetItemThenGet ==
    [][(pc = "ready" /\ exc = "none" /\ scopes # <<>> /\ last' = "__setitem__") =>
           \A k \in Keys, v \in Values :
               __setitem__(k, v) =>
                   /\ exc' = "none"
                   /\ BaseSettings_get(_data', k, None).ret = v
                   /\ BaseSettings_get_priority(_data', k).ret = "project"]_vars

\* record r does not win over a record written now as 'project' with value v
NotAboveProject(r, v) ==
    \/ r.rank < SETTING_PRIORITIES["project"]
    \/ /\ r.rank = SETTING_PRIORITIES["project"]
       /\ \/ StrOrd(r.priority) < StrOrd("project")
          \/ r.priority = "project" /\ r.value <= v

\* C17 amended: inside an unfreeze scope s[k] = v succeeds; it is followed by
\* s[k] == v and get_priority(k) == 'project' when k has no record that
\* compares above (rank of 'project', 'project', v), in particular when k has
\* no record; otherwise s[k] and get_priority(k) stay what they were.
C17_SetItemUnlessOutranked ==
    [][(pc = "ready" /\ exc = "none" /\ scopes # <<>> /\ last' = "__setitem__") =>
           \A k \in Keys, v \in Values :
               __setitem__(k, v) =>
                   /\ exc' = "none"
                   /\ IF \A r \in RecordsOf(HistoryOf(_data, k)) : NotAboveProject(r, v)
                      THEN /\ BaseSettings_get(_data', k, None).ret = v
                           /\ BaseSettings_get_priority(_data', k).ret = "project"
                      ELSE /\ BaseSettings_get(_data', k, None) =
                                  BaseSettings_get(_data, k, None)
                           /\ BaseSettings_get_priority(_data', k) =
                                  BaseSettings_get_priority(_data, k)]_vars

\* an item assignment to the only key, which a record of "customize" outranks
C17_Witness ==
    /\ last = "__setitem__"
    /\ exc = "none"
    /\ DOMAIN _data = {"A"}
    /\ BaseSettings_get_priority(_data, "A").ret = "customize"

\* C18: a history without records gives None as its value and as its
\* priority; set with no priority name raises nothing and appends nothing:
\* the history of the key (empty if the key was absent), its value and its
\* priority, and every other key are as before.
C18_EmptyHistoryAndNoOp ==
    /\ [](\A k \in DOMAIN _data :
              _data[k] = <<>> =>
                  /\ SettingAttributes_get(_data[k]) = None
                  /\ SettingAttributes_get_priority(_data[k]) = NonePriority
                  /\ BaseSettings_get(_data, k, None) = [exc |-> "none", ret |-> None])
    /\ [][(pc = "ready" /\ exc = "none" /\ ~_frozen /\ last' = "set") =>
              \A k \in Keys, v \in Values :
                  set(k, v, "") =>
                      /\ exc' = "none"
                      /\ k \in DOMAIN _data'
                      /\ _data'[k] = HistoryOf(_data, k)
                      /\ SettingAttributes_get(_data'[k]) =
                             SettingAttributes_get(HistoryOf(_data, k))
                      /\ SettingAttributes_get_priority(_data'[k]) =
                             SettingAttributes_get_priority(HistoryOf(_data, k))
                      /\ \A j \in DOMAIN _data \ {k} :
                             j \in DOMAIN _data' /\ _data'[j] = _data[j]]_vars

\* a set without priority name left the only key without records
C18_Witness ==
    /\ last = "set"
    /\ exc = "none"
    /\ DOMAIN _data = {"A"}
    /\ _data["A"] = <<>>

\* the (rank, name, value) triples the sources of one construction supply for
\* key k: constructor settings, defaults module, user file, environment
Suppliers(k) ==
    {setting_attributes(PriorityTable[todo.priority], todo.priority, todo.settings[i][2]) :
         i \in {j \in DOMAIN todo.settings : todo.settings[j][1] = k}}
    \cup {setting_attributes(0, "default", todo.module[i][2]) :
              i \in {j \in DOMAIN todo.module : todo.module[j][1] = k}}
    \cup {setting_attributes(10, "user", todo.dict_config[i][2]) :
              i \in {j \in DOMAIN todo.dict_config :
                         todo.path_config /\ todo.dict_config[j][1] = k}}
    \cup {setting_attributes(30, "env", todo.environ[n]) :
              n \in {m \in DOMAIN todo.environ : m = [prefix |-> "MINOTAUR_", rest |-> k]}}
TopSuppliers(k) == {t \in Suppliers(k) : \A u \in Suppliers(k) : u.rank <= t.rank}

\* C19: a Settings object built at a priority of the table is returned, is
\* frozen with no scope left open, contains exactly the keys some source
\* supplies, and for each of them get_priority is the name of the
\* highest-ranked supplying source and get the value that source supplies
\* (the greatest, when the constructor writes at the rank of another source),
\* although the constructor settings are written first.
C19_SettingsAssembly ==
    /\ (pc # "new" /\ todo.priority \in DOMAIN PriorityTable) => pc = "ready"
    /\ pc = "ready" => (_frozen /\ scopes = <<>>)
    /\ (pc = "ready" /\ todo.priority \in DOMAIN PriorityTable) =>
           \A k \in Keys :
               IF Suppliers(k) = {}
               THEN ~BaseSettings_contains(_data, k)
               ELSE /\ BaseSettings_contains(_data, k)
                    /\ \E t \in TopSuppliers(k) :
                           /\ BaseSettings_get_priority(_data, k).ret = t.priority
                           /\ BaseSettings_get(_data, k, None).ret = t.value
                           /\ \A u \in TopSuppliers(k) : u.value <= t.value

\* built at 'cmd' from four sources that all supply key "A": the constructor
\* value, written first and smaller than the others, is the effective one
C19_Witness ==
    /\ pc = "ready"
    /\ last = "Settings.__init__"
    /\ todo.priority = "cmd"
    /\ "A" \in DOMAIN _data
    /\ Len(_data["A"]) = 4
    /\ BaseSettings_get_priority(_data, "A").ret = "cmd"
    /\ BaseSettings_get(_data, "A", None).ret = 1
    /\ \A r \in RecordsOf(_data["A"]) : r.priority # "cmd" => r.value = 2

\* C20: once constructed, the store is frozen exactly when no unfreeze scope
\* is active (is_frozen returns that flag), and a step that changes the set
\* of keys or a history starts in a state with an active scope.
C20_FrozenIffNoScope ==
    /\ [](pc = "ready" => (BaseSettings_is_frozen(_frozen) <=> scopes = <<>>))
    /\ [][(pc = "ready" /\ _data' # _data) => (scopes # <<>> /\ ~_frozen)]_vars

\* a delete inside a scope removed a key of a store that held two
C20_Witness ==
    /\ last = "__delitem__"
    /\ exc = "none"
    /\ scopes # <<>>
    /\ ~_frozen
    /\ Cardinality(DOMAIN _data) = 1

\* every contained key has a record, so get gives a recorded value and
\* get_priority a name of the table
EveryKeyHasRecord(data) ==
    \A k \in DOMAIN data :
        /\ data[k] # <<>>
        /\ BaseSettings_get(data, k, None).ret \in {r.value : r \in RecordsOf(data[k])}
        /\ BaseSettings_get_priority(data, k).ret \in DOMAIN SETTING_PRIORITIES

\* C21: set, item assignment, update and delete, made on an unfrozen store
\* in which every contained key has a record, leave a store in which every
\* contained key has a record, whatever the priority name and whether or not
\* the call fails.
C21_EveryKeyHasRecord ==
    [][(pc = "ready" /\ exc = "none" /\ ~_frozen /\ last' \in Mutators
            /\ EveryKeyHasRecord(_data)) =>
           EveryKeyHasRecord(_data')]_vars

\* some record of data is missing from data2
RecordsRemoved(data, data2) ==
    \E k \in DOMAIN data :
        \E rec \in RecordsOf(data[k]) :
            Count(HistoryOf(data2, k), rec) < Count(data[k], rec)

\* C22: a successful set(k, v, p) with p in the table adds one record
\* (rank(p), p, v) to the history of k and keeps every earlier record of k
\* as often as it occurred; the histories of the other keys, hence their get
\* and get_priority, and the frozen flag are as before; a step that removes a
\* record is a delete, and it removes one key with all its records and
\* leaves the other keys as they were.
C22_AppendOnly ==
    /\ [][(pc = "ready" /\ exc = "none" /\ ~_frozen /\ last' = "set") =>
              \A k \in Keys, v \in Values, p \in RegisteredArgs :
                  set(k, v, p) =>
                      /\ exc' = "none"
                      /\ _frozen' = _frozen
                      /\ Len(_data'[k]) = Len(HistoryOf(_data, k)) + 1
                      /\ \A rec \in RecordsOf(_data'[k]) :
                             Count(_data'[k], rec) =
                                 Count(HistoryOf(_data, k), rec) +
                                 (IF rec = setting_attributes(SETTING_PRIORITIES[p], p, v)
                                  THEN 1 ELSE 0)
                      /\ Count(_data'[k], setting_attributes(SETTING_PRIORITIES[p], p, v)) >= 1
                      /\ DOMAIN _data' = DOMAIN _data \cup {k}
                      /\ \A j \in DOMAIN _data \ {k} :
                             /\ _data'[j] = _data[j]
                             /\ BaseSettings_get(_data', j, None) =
                                    BaseSettings_get(_data, j, None)
                             /\ BaseSettings_get_priority(_data', j) =
                                    BaseSettings_get_priority(_data, j)]_vars
    /\ [][(_data' # _data /\ RecordsRemoved(_data, _data')) =>
              /\ last' = "__delitem__"
              /\ \E k \in DOMAIN _data :
                     /\ DOMAIN _data' = DOMAIN _data \ {k}
                     /\ \A j \in DOMAIN _data' : _data'[j] = _data[j]]_vars

\* the same record was written twice to one key while another key is held
C22_Witness ==
    /\ last = "set"
    /\ exc = "none"
    /\ Cardinality(DOMAIN _data) = 2
    /\ \E k \in DOMAIN _data :
           Len(_data[k]) = 2 /\ _data[k][1] = _data[k][2]

\* the position of a thread's step in the order of steps taken
Pos(step, t) == CHOOSE i \in DOMAIN todo.log : todo.log[i] = <<step, t>>
\* the scopes of t and u overlap: each is begun before the other has exited
Overlap(t, u) ==
    /\ Pos("status", t) < Pos("exit", u)
    /\ Pos("status", u) < Pos("exit", t)
\* u begins its scope inside the scope of t and ...
Inside(t, u) == Pos("enter", t) < Pos("status", u) /\ Pos("status", u) < Pos("exit", t)
\* ... leaves it first (nested), or last (enter t, enter u, exit t, exit u)
Nested(t, u) == Inside(t, u) /\ Pos("exit", u) < Pos("exit", t)
Crossed(t, u) == Inside(t, u) /\ Pos("exit", t) < Pos("exit", u)

\* C23 as claimed: once two overlapping scopes of two threads have both
\* exited, the store is frozen and every mutating call fails.
C23_ThreadsRefreeze ==
    /\ [](ThreadsDone =>
              \A t, u \in Threads : (t # u /\ Overlap(t, u)) => _frozen)
    /\ [][(ThreadsDone /\ exc = "none" /\ last' \in Mutators) =>
              exc' = "SettingsFrozenException"]_vars

\* C23 amended: once both scopes have exited the flag is the status saved by
\* the scope that exited last: the store is frozen when the scopes are nested
\* (the scope begun second exits first) and when each thread saved the flag
\* before the other cleared it; it is left unfrozen in enter t, enter u,
\* exit t, exit u, where u saves the flag after t cleared it; a mutating call
\* made after both exits fails exactly when the store was left frozen.
C23_LastExitDecides ==
    /\ [](ThreadsDone =>
              /\ _frozen = todo.status[todo.log[Len(todo.log)][2]]
              /\ \A t, u \in Threads :
                     t # u =>
                         /\ Nested(t, u) => _frozen
                         /\ (/\ Pos("status", t) < Pos("enter", u)
                             /\ Pos("status", u) < Pos("enter", t)) => _frozen
                         /\ Crossed(t, u) => ~_frozen)
    /\ [][(ThreadsDone /\ exc = "none" /\ last' \in Mutators) =>
              /\ _frozen' = _frozen
              /\ _frozen => (exc' = "SettingsFrozenException" /\ _data' = _data)
              /\ (~_frozen /\ last' = "set") => (exc' = "none" /\ _data' # _data)]_vars

\* after enter t1, enter t2, exit t1, exit t2 a set has added a record
C23_Witness ==
    /\ ThreadsDone
    /\ Crossed("t1", "t2")
    /\ ~_frozen
    /\ last = "set"
    /\ exc = "none"
    /\ TotalRecords(_data) >= 1
====
